---- MODULE Spec2Model ----
(***************************************************************************)
(* Model of lonerapier/shitty-crypto:                                      *)
(*   - hash/src/poseidon.rs : the Poseidon permutation and hash            *)
(*   - src/dh/mod.rs        : finite-field and elliptic-curve              *)
(*                            Diffie-Hellman                               *)
(* Field elements (ark_bn254::Fr) are integers modulo FrModulus; vectors   *)
(* are functions over 0..len-1 so that indices read as in the source.      *)
(***************************************************************************)
EXTENDS Integers, Sequences, FiniteSets, TLC

\* ------------------------------------------------------------------ bounds
\* Stand-in for the BN254 scalar field modulus (23: prime, gcd(5, 23-1) = 1).
FrModulus == 23
\* Input elements are drawn from 0..MaxElem.
MaxElem == 2
\* Input vectors have 1..MaxInputLen elements.
MaxInputLen == 3
\* The constants table has rows for widths 2..MaxTableWidth.
MaxTableWidth == 3
\* hash() is called at most MaxCalls times on one instance.
MaxCalls == 2
\* Stand-in for the order of the field of FFDH (PlutoBaseField).
DhFieldOrder == 11
\* Stand-in for the order of the curve group of ECDH (PlutoBaseCurve).
EcGroupOrder == 7
\* thread_rng() draws private keys from 0..MaxPriv.
MaxPriv == 12

\* ------------------------------------------------------- program constants
alpha == 5
num_f == 57
num_p == 8
PRIMITIVE_ELEMENT == 2

\* ------------------------------------------------------------ field (Fr)
Fr == 0 .. (FrModulus - 1)

Fr_add(a, b) == (a + b) % FrModulus

Fr_mul(a, b) == (a * b) % FrModulus

Fr_square(a) == (a * a) % FrModulus

\* Fr::from_str: a decimal literal read as the congruent field element
Fr_from_str(n) == n % FrModulus

\* a vector of length n, indexed 0..n-1
Vec(n, S) == [0 .. (n - 1) -> S]

VecLen(v) == Cardinality(DOMAIN v)

NoVec == [k \in {} |-> 0]

\* --------------------------------------------------------- constants table
\* crate::constants::constants(): per width t a flat list of round constants
\* and a t x t matrix, as decimal literals.
TableWidths == 2 .. MaxTableWidth

RECURSIVE IntPow(_, _)
IntPow(b, e) == IF e = 0 THEN 1 ELSE b * IntPow(b, e - 1)

c_str_row(t) == [k \in 0 .. (t * (num_f + num_p) - 1) |-> (k * k * k) \div 7 + 3 * k + t + 11]

m_str_row(t) == [i \in 0 .. (t - 1) |-> [j \in 0 .. (t - 1) |-> IntPow(i + 2, j)]]

constants == [c |-> [t \in TableWidths |-> c_str_row(t)],
              m |-> [t \in TableWidths |-> m_str_row(t)]]

Min(a, b) == IF a < b THEN a ELSE b

\* load_constants with a silent default: a width without a row gets all-zero
\* constants instead of a panic
load_constants_default(t, nf, np) ==
    LET has == t \in DOMAIN constants.c /\ t \in DOMAIN constants.m
        n == t * (nf + np)
    IN [ok |-> TRUE,
        round_constants |-> [k \in 0 .. (n - 1) |->
                               IF has THEN Fr_from_str(constants.c[t][k]) ELSE 0],
        mds |-> [i \in 0 .. (t - 1) |->
                   [j \in 0 .. (t - 1) |->
                      IF has THEN Fr_from_str(constants.m[t][i][j]) ELSE 0]]]

\* load_constants: indexing the table with a width it has no row for panics;
\* otherwise take at most t*(num_f+num_p) round constants and the t x t matrix.
load_constants(t, nf, np) ==
    IF t \notin DOMAIN constants.c \/ t \notin DOMAIN constants.m
    THEN [ok |-> FALSE]
    ELSE LET c_row == constants.c[t]
             m_row == constants.m[t]
             n == Min(VecLen(c_row), t * (nf + np))
         IN [ok |-> TRUE,
             round_constants |-> [k \in 0 .. (n - 1) |-> Fr_from_str(c_row[k])],
             mds |-> [i \in 0 .. (t - 1) |->
                        [j \in 0 .. (t - 1) |-> Fr_from_str(m_row[i][j])]]]

\* PoseidonParams::new
PoseidonParams_new(t) ==
    LET l == load_constants(t, num_f, num_p)
    IN IF l.ok
       THEN [ok |-> TRUE, t |-> t, alpha |-> alpha, num_f |-> num_f, num_p |-> num_p,
             mds_matrix |-> l.mds, round_constants |-> l.round_constants]
       ELSE [ok |-> FALSE]

\* ---------------------------------------------------------------- state
VARIABLES
    pc,          \* position of the Poseidon caller
    input,       \* the input vector handed to Poseidon::new
    mode,        \* the PoseidonHashType handed to Poseidon::new
    domain_tag,  \* the local domain_tag computed by Poseidon::new
    state,       \* Poseidon.state
    params,      \* Poseidon.params
    round,       \* loop index i of hash()
    pre,         \* the state before the last step of the round loop
    trace,       \* steps of the current hash() call, in order
    reads,       \* how often each index of round_constants was read in this call
    start,       \* the state at the start of the current hash() call
    digests,     \* the digests returned by hash() on this instance, in order
    mix_pc,      \* position of the caller of product_mds
    mix_t,       \* the width of the two vectors
    mix_a,       \* a state vector
    mix_b,       \* another state vector of the same width
    mix_out,     \* product_mds of mix_a, of mix_b and of their sum
    dh_pc,       \* position of the key exchange
    dh_kind,     \* "FFDH" or "ECDH"
    alice,       \* one participant
    bob,         \* the other participant
    dh_called    \* the participants whose generate_shared_key has returned

pvars == <<pc, input, mode, domain_tag, state, params, round, pre, trace, reads,
           start, digests>>

mvars == <<mix_pc, mix_t, mix_a, mix_b, mix_out>>

dvars == <<dh_pc, dh_kind, alice, bob, dh_called>>

vars == <<pvars, mvars, dvars>>

\* ------------------------------------------------------------- Poseidon
RECURSIVE BitXor(_, _)
\* Rust's ^ on unsigned integers: bitwise exclusive or
BitXor(a, b) ==
    IF a = 0 /\ b = 0 THEN 0
    ELSE (((a % 2) + (b % 2)) % 2) + 2 * BitXor(a \div 2, b \div 2)

\* the local domain_tag of Poseidon::new (computed, then never stored)
compute_domain_tag(len, hash_type) ==
    IF hash_type = "MerkleTree"
    THEN BitXor(2, len) + 1
    ELSE BitXor(2, 64) * len

\* vec![Fr::zero()] followed by the input
new_state(v) ==
    [k \in 0 .. VecLen(v) |-> IF k = 0 THEN 0 ELSE v[k - 1]]

RECURSIVE sbox_full_loop(_, _, _)
sbox_full_loop(s, i, width) ==
    IF i >= width THEN s
    ELSE LET temp == s[0]
             s1 == [s EXCEPT ![i] = Fr_square(s[0])]
             s2 == [s1 EXCEPT ![i] = Fr_square(s1[0])]
             s3 == [s2 EXCEPT ![i] = Fr_mul(s2[i], temp)]
         IN sbox_full_loop(s3, i + 1, width)

sbox_full(s, width) == sbox_full_loop(s, 0, width)

sbox_partial(s) ==
    LET temp == s[0]
        s1 == [s EXCEPT ![0] = Fr_square(s[0])]
        s2 == [s1 EXCEPT ![0] = Fr_square(s1[0])]
    IN [s2 EXCEPT ![0] = Fr_mul(s2[0], temp)]

\* the condition of sbox(): TRUE when the round takes the full S-box
sbox_is_full(round_i, np, nf) ==
    round_i < np \div 2 \/ round_i > np \div 2 + nf

RECURSIVE mds_row_sum(_, _, _, _)
mds_row_sum(s, row, j, width) ==
    IF j >= width THEN 0
    ELSE LET rest == mds_row_sum(s, row, j + 1, width)
         IN Fr_add(Fr_mul(s[j], row[j]), rest)

\* product_mds with the accumulator new_state_i declared outside the row loop
RECURSIVE carried_rows(_, _, _, _)
carried_rows(s, mds, width, i) ==
    IF i = 0 THEN NoVec
    ELSE LET rest == carried_rows(s, mds, width, i - 1)
             acc == IF i = 1 THEN 0 ELSE rest[i - 2]
         IN rest @@ ((i - 1) :> Fr_add(acc, mds_row_sum(s, mds[i - 1], 0, width)))

product_mds_carried(s, mds, width) == carried_rows(s, mds, width, width)

product_mds(s, mds, width) ==
    [i \in 0 .. (width - 1) |-> mds_row_sum(s, mds[i], 0, width)]

\* add_round_constants with the round's offset not scaled by the width
rc_index_unscaled(ith, width, i) == ith + i

\* the index of round_constants that add_round_constants reads for position i
rc_index(ith, width, i) == ith * width + i

add_round_constants(s, rc, ith, width) ==
    [i \in 0 .. (width - 1) |-> Fr_add(s[i], rc[rc_index(ith, width, i)])]

\* indices of round_constants read by add_round_constants(ith)
rc_indices(ith, width) == {rc_index(ith, width, i) : i \in 0 .. (width - 1)}

RECURSIVE Evaluated(_, _)
\* the vector v from index k on, with every element evaluated
Evaluated(v, k) ==
    IF k \notin DOMAIN v THEN << >> ELSE (k :> v[k]) @@ Evaluated(v, k + 1)

\* one iteration of the loop of hash(): add_round_constants, sbox, product_mds
round_step(s, p, i) ==
    LET a == Evaluated(add_round_constants(s, p.round_constants, i, p.t), 0)
        b == IF sbox_is_full(i, p.num_p, p.num_f) THEN sbox_full(a, p.t) ELSE sbox_partial(a)
    IN Evaluated(product_mds(Evaluated(b, 0), p.mds_matrix, p.t), 0)

RECURSIVE hash_rounds(_, _, _)
\* the round loop of hash() from round i on; each round's state is computed
\* (it keeps its length) before the next round starts
hash_rounds(s, p, i) ==
    IF i >= p.num_f + p.num_p THEN s
    ELSE LET n == round_step(s, p, i)
         IN IF DOMAIN n = DOMAIN s THEN hash_rounds(n, p, i + 1) ELSE n

NoParams == [ok |-> FALSE]

InputVectors ==
    UNION {Vec(n, 0 .. MaxElem) : n \in 1 .. MaxInputLen}

HashTypes == {"MerkleTree", "ConstInputLen"}

PoseidonIdle ==
    /\ pc = "start"
    /\ input = NoVec
    /\ mode = "none"
    /\ domain_tag = 0
    /\ state = NoVec
    /\ params = NoParams
    /\ round = 0
    /\ pre = NoVec
    /\ trace = <<>>
    /\ reads = NoVec
    /\ start = NoVec
    /\ digests = <<>>

\* Poseidon::new(state, hash_type)
New(v, hash_type) ==
    /\ pc = "start"
    /\ input' = v
    /\ mode' = hash_type
    /\ LET t == VecLen(v) + 1
           p == PoseidonParams_new(t)
       IN /\ domain_tag' = compute_domain_tag(VecLen(v), hash_type)
          /\ IF p.ok
             THEN /\ state' = new_state(v)
                  /\ params' = p
                  /\ pc' = "ready"
             ELSE /\ state' = NoVec
                  /\ params' = NoParams
                  /\ pc' = "panicked"
    /\ UNCHANGED <<round, pre, trace, reads, start, digests>>
    /\ UNCHANGED <<mvars, dvars>>

\* hash(): entry, before the round loop
HashBegin ==
    /\ pc = "ready"
    /\ Len(digests) < MaxCalls
    /\ round' = 0
    /\ trace' = <<>>
    /\ reads' = [k \in DOMAIN params.round_constants |-> 0]
    /\ start' = state
    /\ pre' = state
    /\ pc' = IF params.num_f + params.num_p > 0 THEN "ark" ELSE "ret"
    /\ UNCHANGED <<input, mode, domain_tag, state, params, digests>>
    /\ UNCHANGED <<mvars, dvars>>

\* hash(): self.add_round_constants(i)
ArkStep ==
    /\ pc = "ark"
    /\ pre' = state
    /\ IF rc_indices(round, params.t) \subseteq DOMAIN params.round_constants
       THEN /\ state' = add_round_constants(state, params.round_constants, round, params.t)
            /\ reads' = [k \in DOMAIN reads |->
                           reads[k] + Cardinality({i \in 0 .. (params.t - 1) :
                                                     rc_index(round, params.t, i) = k})]
            /\ trace' = Append(trace, "ark")
            /\ pc' = "sbox"
       ELSE /\ pc' = "panicked"
            /\ UNCHANGED <<state, reads, trace>>
    /\ UNCHANGED <<input, mode, domain_tag, params, round, start, digests>>
    /\ UNCHANGED <<mvars, dvars>>

\* hash(): self.sbox(i), full branch
SboxFullStep ==
    /\ pc = "sbox"
    /\ sbox_is_full(round, params.num_p, params.num_f)
    /\ pre' = state
    /\ state' = sbox_full(state, params.t)
    /\ trace' = Append(trace, "sbox_full")
    /\ pc' = "mds"
    /\ UNCHANGED <<input, mode, domain_tag, params, round, reads, start, digests>>
    /\ UNCHANGED <<mvars, dvars>>

\* hash(): self.sbox(i), partial branch
SboxPartialStep ==
    /\ pc = "sbox"
    /\ ~sbox_is_full(round, params.num_p, params.num_f)
    /\ pre' = state
    /\ state' = sbox_partial(state)
    /\ trace' = Append(trace, "sbox_partial")
    /\ pc' = "mds"
    /\ UNCHANGED <<input, mode, domain_tag, params, round, reads, start, digests>>
    /\ UNCHANGED <<mvars, dvars>>

\* hash(): self.product_mds(i), then the loop's next iteration or its exit
MdsStep ==
    /\ pc = "mds"
    /\ pre' = state
    /\ state' = product_mds(state, params.mds_matrix, params.t)
    /\ trace' = Append(trace, "mds")
    /\ round' = round + 1
    /\ pc' = IF round + 1 < params.num_f + params.num_p THEN "ark" ELSE "ret"
    /\ UNCHANGED <<input, mode, domain_tag, params, reads, start, digests>>
    /\ UNCHANGED <<mvars, dvars>>

\* hash(): Ok(self.state[1])
HashReturn ==
    /\ pc = "ret"
    /\ digests' = Append(digests, state[1])
    /\ pc' = "ready"
    /\ UNCHANGED <<input, mode, domain_tag, state, params, round, pre, trace, reads, start>>
    /\ UNCHANGED <<mvars, dvars>>

\* --------------------------------------------------- product_mds alone
MixIdle ==
    /\ mix_pc = "idle"
    /\ mix_t = 0
    /\ mix_a = NoVec
    /\ mix_b = NoVec
    /\ mix_out = [a |-> NoVec, b |-> NoVec, ab |-> NoVec]

vec_add(a, b) == [k \in DOMAIN a |-> Fr_add(a[k], b[k])]

\* product_mds applied to mix_a, to mix_b and to mix_a + mix_b
MixApply ==
    /\ mix_pc = "start"
    /\ LET m == load_constants(mix_t, num_f, num_p).mds
       IN mix_out' = [a |-> product_mds(mix_a, m, mix_t),
                      b |-> product_mds(mix_b, m, mix_t),
                      ab |-> product_mds(vec_add(mix_a, mix_b), m, mix_t)]
    /\ mix_pc' = "done"
    /\ UNCHANGED <<mix_t, mix_a, mix_b>>
    /\ UNCHANGED <<pvars, dvars>>

\* ------------------------------------------------------- Diffie-Hellman
\* F::from(u32) of the field of FFDH
F_from(n) == n % DhFieldOrder

F_mul(a, b) == (a * b) % DhFieldOrder

\* A point of the cyclic curve group is k * GENERATOR, written k (0: Infinity).
GENERATOR == 1 % EcGroupOrder

Infinity == 0

Point_mul(pt, k) == (pt * k) % EcGroupOrder

NoParty == [private_key |-> 0, public_key |-> 0, shared_key |-> 0]

DhIdle ==
    /\ dh_pc = "idle"
    /\ dh_kind = "none"
    /\ alice = NoParty
    /\ bob = NoParty
    /\ dh_called = {}

\* FFDH::new with the private key that thread_rng() drew
FFDH_new(priv_key) ==
    [private_key |-> priv_key,
     public_key |-> F_mul(PRIMITIVE_ELEMENT % DhFieldOrder, F_from(priv_key)),
     shared_key |-> 0]

\* ECDH::new with the u32 that thread_rng() drew
ECDH_new(rnd) ==
    LET priv_key == rnd % EcGroupOrder
    IN [private_key |-> priv_key,
        public_key |-> Point_mul(GENERATOR, priv_key),
        shared_key |-> Infinity]

\* FFDH::generate_shared_key adding the private key instead of multiplying by it
FFDH_shared_key_added(self, another_pub_key) ==
    (another_pub_key + F_from(self.private_key)) % DhFieldOrder

\* the value FFDH::generate_shared_key assigns to shared_key
FFDH_shared_key(self, another_pub_key) ==
    F_mul(another_pub_key, F_from(self.private_key))

\* the value ECDH::generate_shared_key assigns to shared_key
ECDH_shared_key(self, another_pub_key) ==
    Point_mul(another_pub_key, self.private_key)

shared_key_of(kind, self, another_pub_key) ==
    IF kind = "FFDH" THEN FFDH_shared_key(self, another_pub_key)
    ELSE ECDH_shared_key(self, another_pub_key)

\* two FFDH participants, each from new()
FFDH_create ==
    /\ dh_pc = "start"
    /\ \E ka, kb \in 0 .. MaxPriv :
          /\ alice' = FFDH_new(ka)
          /\ bob' = FFDH_new(kb)
    /\ dh_kind' = "FFDH"
    /\ dh_pc' = "created"
    /\ UNCHANGED dh_called
    /\ UNCHANGED <<pvars, mvars>>

\* two ECDH participants, each from new()
ECDH_create ==
    /\ dh_pc = "start"
    /\ \E ra, rb \in 0 .. MaxPriv :
          /\ alice' = ECDH_new(ra)
          /\ bob' = ECDH_new(rb)
    /\ dh_kind' = "ECDH"
    /\ dh_pc' = "created"
    /\ UNCHANGED dh_called
    /\ UNCHANGED <<pvars, mvars>>

\* alice.generate_shared_key(bob.public_key)
AliceGenerates ==
    /\ dh_pc = "created"
    /\ "alice" \notin dh_called
    /\ IF bob.public_key # alice.public_key
       THEN /\ alice' = [alice EXCEPT !.shared_key = shared_key_of(dh_kind, alice, bob.public_key)]
            /\ dh_called' = dh_called \cup {"alice"}
            /\ UNCHANGED dh_pc
       ELSE /\ dh_pc' = "panicked"
            /\ UNCHANGED <<alice, dh_called>>
    /\ UNCHANGED <<dh_kind, bob>>
    /\ UNCHANGED <<pvars, mvars>>

\* bob.generate_shared_key(alice.public_key)
BobGenerates ==
    /\ dh_pc = "created"
    /\ "bob" \notin dh_called
    /\ IF alice.public_key # bob.public_key
       THEN /\ bob' = [bob EXCEPT !.shared_key = shared_key_of(dh_kind, bob, alice.public_key)]
            /\ dh_called' = dh_called \cup {"bob"}
            /\ UNCHANGED dh_pc
       ELSE /\ dh_pc' = "panicked"
            /\ UNCHANGED <<bob, dh_called>>
    /\ UNCHANGED <<dh_kind, alice>>
    /\ UNCHANGED <<pvars, mvars>>

\* -------------------------------------------------------- specifications
Init == PoseidonIdle /\ MixIdle /\ DhIdle

\* the two vectors handed to product_mds: mix_a with small elements, mix_b
\* with elements next to the modulus, so that sums wrap around
InitMix ==
    /\ PoseidonIdle
    /\ DhIdle
    /\ mix_pc = "start"
    /\ mix_t \in TableWidths
    /\ mix_a \in Vec(mix_t, 0 .. MaxElem)
    /\ mix_b \in Vec(mix_t, (FrModulus - 1 - MaxElem) .. (FrModulus - 1))
    /\ mix_out = [a |-> NoVec, b |-> NoVec, ab |-> NoVec]

NextMix == MixApply

SpecMix == InitMix /\ [][NextMix]_vars

InitDH ==
    /\ PoseidonIdle
    /\ MixIdle
    /\ dh_pc = "start"
    /\ dh_kind = "none"
    /\ alice = NoParty
    /\ bob = NoParty
    /\ dh_called = {}

NextDH ==
    \/ FFDH_create
    \/ ECDH_create
    \/ AliceGenerates
    \/ BobGenerates

SpecDH == InitDH /\ [][NextDH]_vars

NewAny == \E v \in InputVectors, h \in HashTypes : New(v, h)

Next ==
    \/ NewAny
    \/ HashBegin
    \/ ArkStep
    \/ SboxFullStep
    \/ SboxPartialStep
    \/ MdsStep
    \/ HashReturn

Spec == Init /\ [][Next]_vars

\* ------------------------------------------------------------ properties
RECURSIVE FrPow(_, _)
FrPow(b, e) == IF e = 0 THEN 1 % FrModulus ELSE (b * FrPow(b, e - 1)) % FrModulus

NumRounds == num_f + num_p

\* the domain tag of the design: 2^n + 1 (MerkleTree), 2^64 * n (ConstInputLen)
DesignTag(n, hash_type) ==
    IF hash_type = "MerkleTree"
    THEN (FrPow(2, n) + 1) % FrModulus
    ELSE (FrPow(2, 64) * n) % FrModulus

DesignInitialState(v, hash_type) ==
    [k \in 0 .. VecLen(v) |-> IF k = 0 THEN DesignTag(VecLen(v), hash_type) ELSE v[k - 1]]

\* C1: Poseidon::new builds the state [tag, input[0], ..., input[n-1]] with
\* tag = 2^n + 1 (MerkleTree) or 2^64 * n (ConstInputLen).
C1_InitialStateHasTag ==
    (pc = "ready" /\ digests = <<>>) => state = DesignInitialState(input, mode)

LastStep == IF trace = <<>> THEN "none" ELSE trace[Len(trace)]

\* C2: the full S-box layer replaces every position k by the fifth power of
\* that position's value before the layer.
C2_SboxFullFifthPower ==
    (pc = "mds" /\ LastStep = "sbox_full")
        => \A k \in DOMAIN pre : state[k] = FrPow(pre[k], 5)

\* C3: hash() called again on the same instance returns the digest of the
\* first call.
C3_RepeatedHashSameDigest ==
    \A i, j \in DOMAIN digests : digests[i] = digests[j]

\* C4: rounds 0..3 and 61..64 take the full S-box, rounds 4..60 the partial one.
C4_RoundClassification ==
    \A r \in 0 .. (NumRounds - 1) :
        3 * r + 2 <= Len(trace)
            => trace[3 * r + 2] = IF r <= 3 \/ r >= 61 THEN "sbox_full" ELSE "sbox_partial"

StepsOfRound == <<"ark", "sbox", "mds">>

StepKind(step) == IF step \in {"sbox_full", "sbox_partial"} THEN "sbox" ELSE step

\* how many steps of the current round are done at each position of hash()
StepsDone == IF pc = "sbox" THEN 1 ELSE IF pc = "mds" THEN 2 ELSE 0

InHash == pc \in {"ark", "sbox", "mds", "ret"}

\* C5: hash() runs exactly num_f + num_p rounds, each add-round-constants, then
\* S-box, then MDS; round i adds round_constants[i*t + k] to state[k]; every
\* index 0 .. t*R - 1 is read exactly once and none beyond; the state keeps
\* length t.
C5_RoundCount ==
    params.ok =>
        /\ pc # "panicked"
        /\ DOMAIN state = 0 .. (params.t - 1)
        /\ InHash =>
              /\ round <= NumRounds
              /\ pc = "ret" <=> round = NumRounds
              /\ Len(trace) = 3 * round + StepsDone
              /\ \A j \in 1 .. Len(trace) :
                    StepKind(trace[j]) = StepsOfRound[((j - 1) % 3) + 1]
              /\ DOMAIN reads = 0 .. (params.t * NumRounds - 1)
              /\ \A k \in DOMAIN reads :
                    reads[k] = IF k < params.t * round + (IF StepsDone > 0 THEN params.t ELSE 0)
                               THEN 1 ELSE 0
              /\ pc = "sbox" =>
                    \A k \in 0 .. (params.t - 1) :
                        state[k] = (pre[k] + params.round_constants[round * params.t + k])
                                       % FrModulus
        /\ (pc = "ready" /\ digests # <<>>) =>
              /\ round = NumRounds
              /\ Len(trace) = 3 * NumRounds
              /\ \A k \in 0 .. (params.t * NumRounds - 1) : reads[k] = 1

C5_Witness ==
    /\ pc = "ret"
    /\ round = 65
    /\ params.t = 3
    /\ \A k \in 0 .. 194 : reads[k] = 1

\* the MDS matrix of p has a trivial kernel
MdsInvertible(p) ==
    \A v \in Vec(p.t, Fr) :
        (\E k \in DOMAIN v : v[k] # 0)
            => \E k \in DOMAIN v : product_mds(v, p.mds_matrix, p.t)[k] # 0

Pow5Bijective == \A x, y \in Fr : FrPow(x, 5) = FrPow(y, 5) => x = y

\* C6: with an invertible MDS matrix and x -> x^5 a bijection, two different
\* initial states never lead to the same state after the R rounds.
C6_RoundLoopInjective ==
    (pc = "ret" /\ digests = <<>> /\ Pow5Bijective /\ MdsInvertible(params))
        => \A v \in InputVectors :
              (VecLen(v) = VecLen(input) /\ v # input)
                  => hash_rounds(new_state(v), params, 0) # state

\* C7: a width without a row in the constants table fails before any round
\* runs and before any state exists; no digest is ever produced.
C7_UnsupportedWidth ==
    (pc # "start" /\ (VecLen(input) + 1) \notin TableWidths)
        => /\ pc = "panicked"
           /\ state = NoVec
           /\ params = NoParams
           /\ trace = <<>>
           /\ round = 0
           /\ digests = <<>>

C7_Witness ==
    /\ pc = "panicked"
    /\ VecLen(input) = MaxTableWidth
    /\ digests = <<>>

\* the permutation of the design: full rounds at both ends of the schedule,
\* the fifth power at every position of a full round
DesignSboxFull(s) == [k \in DOMAIN s |-> FrPow(s[k], 5)]

DesignIsFull(i) == i < num_p \div 2 \/ i >= num_p \div 2 + num_f

DesignRound(s, p, i) ==
    LET a == [k \in DOMAIN s |-> (s[k] + p.round_constants[i * p.t + k]) % FrModulus]
        b == IF DesignIsFull(i) THEN DesignSboxFull(a)
             ELSE [a EXCEPT ![0] = FrPow(a[0], 5)]
    IN Evaluated([r \in DOMAIN s |-> mds_row_sum(Evaluated(b, 0), p.mds_matrix[r], 0, p.t)], 0)

RECURSIVE DesignRounds(_, _, _)
DesignRounds(s, p, i) ==
    IF i >= NumRounds THEN s
    ELSE LET n == DesignRound(s, p, i)
         IN IF DOMAIN n = DOMAIN s THEN DesignRounds(n, p, i + 1) ELSE n

DesignDigest(v, hash_type, p) == DesignRounds(DesignInitialState(v, hash_type), p, 0)[1]

\* C9: Poseidon::new(v, ConstInputLen).hash() returns the reference Poseidon
\* digest of the parameter set for v.
C9_KnownVector ==
    (digests # <<>> /\ mode = "ConstInputLen")
        => digests[1] = DesignDigest(input, mode, params)

RECURSIVE IntDot(_, _, _)
\* row . v over the integers, from index j on
IntDot(row, v, j) ==
    IF j \notin DOMAIN v THEN 0 ELSE row[j] * v[j] + IntDot(row, v, j + 1)

\* C8: product_mds replaces the state by the matrix-vector product
\* new_state[i] = sum_j mds_matrix[i][j] * state[j], and is linear:
\* mix(a) + mix(b) = mix(a + b) position by position.
C8_MixLinear ==
    mix_pc = "done" =>
        LET m == load_constants(mix_t, num_f, num_p).mds
        IN /\ DOMAIN mix_out.a = 0 .. (mix_t - 1)
           /\ \A i \in 0 .. (mix_t - 1) :
                 /\ mix_out.a[i] = IntDot(m[i], mix_a, 0) % FrModulus
                 /\ mix_out.b[i] = IntDot(m[i], mix_b, 0) % FrModulus
                 /\ (mix_out.a[i] + mix_out.b[i]) % FrModulus = mix_out.ab[i]

C8_Witness ==
    /\ mix_pc = "done"
    /\ mix_t = 3
    /\ \E i \in DOMAIN mix_a : mix_a[i] + mix_b[i] >= FrModulus
    /\ \E i \in DOMAIN mix_out.a : mix_out.a[i] + mix_out.b[i] >= FrModulus
    /\ \E i \in DOMAIN mix_out.ab : mix_out.ab[i] # 0

====
